---- MODULE Spec2Model ----
(***************************************************************************)
(* Model of analysis_kpi.py, the "Orderlines Data Analysis Tool".  The     *)
(* script is one linear pipeline that is executed top to bottom on every   *)
(* interaction: upload gate, date-column resolution, filter, period        *)
(* slicing, metric aggregation, comparison, presentation, time series.     *)
(*                                                                         *)
(* Numbers.  pandas/numpy compute in IEEE floating point; the model        *)
(* computes in exact rationals extended with NaN and the two infinities.   *)
(* A number is a pair <<n, d>>: d > 0 and gcd(n, d) = 1 for a finite       *)
(* value, <<0, 0>> for NaN, <<1, 0>> and <<-1, 0>> for +inf and -inf.      *)
(* Two finite numbers are equal exactly when their pairs are equal.        *)
(*                                                                         *)
(* Dates.  A raw date cell is a record [date, time]: the calendar day and  *)
(* the time-of-day text, "" when the cell holds a date only.  A parsed     *)
(* timestamp is a pair <<day, tick>>, tick 0 being midnight (of a cell     *)
(* without a time, or with the time 00:00); timestamps are ordered         *)
(* lexicographically.  The script pins no pandas version: parsing a column *)
(* that mixes date-only and date-time cells raises from pandas 2.0 on and  *)
(* parses cell by cell before, so the model takes either outcome.  In the  *)
(* same way the distinct values of a timestamp column are offered as       *)
(* timestamps from pandas 2.0 on and as integer tick counts before (an     *)
(* integer count n is written <<n>>), and isin() on a timestamp column     *)
(* casts chosen integers to timestamps up to pandas 1.1 and matches them   *)
(* with no row from pandas 1.2 on.                                         *)
(*                                                                         *)
(* Tables.  The uploaded tables are well-formed OrderLine tables: at least *)
(* one row, the four metric columns present, no missing cells, every date  *)
(* cell parsable on its own.  The text formatting of displayed numbers is  *)
(* not modelled: the comparison block holds the values handed to the       *)
(* format specifications.                                                  *)
(***************************************************************************)
EXTENDS Integers, Sequences, FiniteSets

VARIABLES
    pc,             \* position of the script run
    uploaded_file,  \* what the file uploader returned
    df,             \* the dataframe: [header, rows]
    date_column,    \* the resolved source date column, or None
    filter_columns, \* the columns offered in the filter selectbox
    chosen_col,     \* the column chosen in the selectbox, or None
    selected_vals,  \* the values chosen in the multiselect
    dates,          \* [start_date1, end_date1, start_date2, end_date2]
    df_period1,     \* rows of period 1
    df_period2,     \* rows of period 2
    kpi1,           \* the metrics of period 1
    kpi2,           \* the metrics of period 2
    cmp,            \* the named diff_* / pct_change_* variables
    metric_choice,  \* the metric selectbox
    shown,          \* what the comparison block displays
    charts,         \* the line charts rendered, in order
    messages,       \* sidebar info / error messages shown
    stages          \* the pipeline stages executed in this run, in order

vars == <<pc, uploaded_file, df, date_column, filter_columns, chosen_col,
          selected_vals, dates, df_period1, df_period2, kpi1, kpi2, cmp,
          metric_choice, shown, charts, messages, stages>>

----------------------------------------------------------------------------
(* Bounds of the model *)

MaxRows == 2
MaxDay == 2
MaxDateCols == 2

----------------------------------------------------------------------------
(* IEEE-style arithmetic on exact rationals *)

NaN == <<0, 0>>
PosInf == <<1, 0>>
NegInf == <<-1, 0>>

Abs(x) == IF x < 0 THEN -x ELSE x
Sign(x) == IF x < 0 THEN -1 ELSE IF x > 0 THEN 1 ELSE 0

RECURSIVE GCD(_, _)
GCD(a, b) == IF b = 0 THEN a ELSE GCD(b, a % b)

\* n/d as a number: reduced, or NaN / an infinity when d = 0
Frac(n, d) ==
    IF d = 0 THEN <<Sign(n), 0>>
    ELSE LET g == GCD(Abs(n), Abs(d))
         IN  <<(Sign(d) * n) \div g, Abs(d) \div g>>

R(i) == <<i, 1>>
Zero == R(0)
Hundred == R(100)
IsFinite(x) == x[2] # 0
IsNaN(x) == x = NaN
IsInf(x) == x[2] = 0 /\ x[1] # 0

RNeg(a) == <<-a[1], a[2]>>

RAdd(a, b) ==
    IF IsNaN(a) \/ IsNaN(b) THEN NaN
    ELSE IF IsInf(a) /\ IsInf(b) THEN (IF a = b THEN a ELSE NaN)
    ELSE IF IsInf(a) THEN a
    ELSE IF IsInf(b) THEN b
    ELSE Frac(a[1] * b[2] + b[1] * a[2], a[2] * b[2])

RSub(a, b) == RAdd(a, RNeg(b))

RMul(a, b) ==
    IF IsNaN(a) \/ IsNaN(b) THEN NaN
    ELSE IF IsInf(a) \/ IsInf(b) THEN <<Sign(a[1]) * Sign(b[1]), 0>>
    ELSE Frac(a[1] * b[1], a[2] * b[2])

\* numpy scalar division: 0/0 is NaN and x/0 an infinity, with a warning
\* and no exception
RDiv(a, b) ==
    IF IsNaN(a) \/ IsNaN(b) THEN NaN
    ELSE IF IsInf(a) /\ IsInf(b) THEN NaN
    ELSE IF IsInf(a) THEN (IF b[1] < 0 THEN RNeg(a) ELSE a)
    ELSE IF IsInf(b) THEN Zero
    ELSE Frac(a[1] * b[2], a[2] * b[1])

----------------------------------------------------------------------------
(* Sequences *)

Range(s) == {s[i] : i \in 1..Len(s)}

RECURSIVE SumSeq(_)
SumSeq(s) == IF s = <<>> THEN Zero ELSE RAdd(s[1], SumSeq(Tail(s)))

\* Series.sum(): 0 for an empty series
SeriesSum(s) == SumSeq(s)

\* Series.mean(): NaN for an empty series
SeriesMean(s) == IF s = <<>> THEN NaN ELSE RDiv(SumSeq(s), R(Len(s)))

\* the first-occurrence order list of the distinct elements of s
RECURSIVE Unique(_)
Unique(s) ==
    IF s = <<>> THEN <<>>
    ELSE LET u == Unique(SubSeq(s, 1, Len(s) - 1))
             x == s[Len(s)]
         IN  IF x \in Range(u) THEN u ELSE Append(u, x)

SeqsUpTo(S, n) == UNION {[1..k -> S] : k \in 1..n}

----------------------------------------------------------------------------
(* Tables *)

None == "None"
NoFile == [name |-> None]
NoFrame == [header |-> <<>>, rows |-> <<>>]

possible_date_columns ==
    <<"CreatedDate", "OrderDate", "Date", "InvoiceCreationDate",
      "InvoiceDate", "Datum">>

\* the columns of an OrderLine table besides its date columns; Region is a
\* further attribute of the uploaded table, used as a filter dimension
OrderLineColumns ==
    <<"Quantity", "PricePerUnit", "MarginPerUnit", "CustomerId", "Region">>

\* the time of day a time text denotes: midnight for no text and for
\* "00:00", a later time otherwise
TimeTick(t) == IF t \in {"", "00:00"} THEN 0 ELSE 1

\* pd.to_datetime of a date cell / of a datetime.date: a date without a
\* time of day becomes midnight of that day
ToDatetime(cell) == <<cell.date, TimeTick(cell.time)>>
DateOf(day) == [date |-> day, time |-> ""]

Day(ts) == ts[1]

\* Timestamp comparison a <= b
TsLe(a, b) == a[1] < b[1] \/ (a[1] = b[1] /\ a[2] <= b[2])

\* one row of a table with header h: datecell gives the raw cell of every
\* date column of h
MkRow(h, datecell, q, price, margin, cust, reg) ==
    [c \in Range(h) |->
        CASE c = "Quantity" -> q
          [] c = "PricePerUnit" -> price
          [] c = "MarginPerUnit" -> margin
          [] c = "CustomerId" -> cust
          [] c = "Region" -> reg
          [] OTHER -> datecell[c]]

Column(frame, c) == [i \in 1..Len(frame.rows) |-> frame.rows[i][c]]

----------------------------------------------------------------------------
(* The script *)

Init ==
    /\ pc = "start"
    /\ uploaded_file = NoFile
    /\ df = NoFrame
    /\ date_column = None
    /\ filter_columns = <<>>
    /\ chosen_col = None
    /\ selected_vals = {}
    /\ dates = <<>>
    /\ df_period1 = <<>>
    /\ df_period2 = <<>>
    /\ kpi1 = <<>>
    /\ kpi2 = <<>>
    /\ cmp = <<>>
    /\ metric_choice = None
    /\ shown = <<>>
    /\ charts = <<>>
    /\ messages = <<>>
    /\ stages = <<>>

\* lines 12-19: the upload gate and read_csv
UploadGate(files) ==
    /\ pc = "start"
    /\ \E f \in files :
        /\ uploaded_file' = f
        /\ IF f = NoFile
           THEN /\ messages' = Append(messages,
                       [kind |-> "info", text |-> "Please upload a CSV to start."])
                /\ pc' = "stopped"
                /\ UNCHANGED <<df, stages>>
           ELSE /\ df' = [header |-> f.header, rows |-> f.rows]
                /\ stages' = Append(stages, "ingestion")
                /\ pc' = "loaded"
                /\ UNCHANGED messages
    /\ UNCHANGED <<date_column, filter_columns, chosen_col, selected_vals,
                   dates, df_period1, df_period2, kpi1, kpi2, cmp,
                   metric_choice, shown, charts>>

\* line 23: next((c for c in possible_date_columns if c in df.columns), None)
RECURSIVE FirstPresent(_, _)
FirstPresent(candidates, columns) ==
    IF candidates = <<>> THEN None
    ELSE IF candidates[1] \in columns THEN candidates[1]
    ELSE FirstPresent(Tail(candidates), columns)

\* ResolveDateColumn taking the first candidate in the order of the table
ResolveByTableOrder(frame) ==
    FirstPresent(SelectSeq(frame.header, LAMBDA c : c \in Range(possible_date_columns)),
                 Range(frame.header))

ResolveDateColumn(frame) == FirstPresent(possible_date_columns, Range(frame.header))

\* line 25: df['CreatedDate'] = pd.to_datetime(df[date_column]); assigning
\* to a column that is not there appends it to the columns
WithCreatedDate(frame, dc) ==
    LET h == IF "CreatedDate" \in Range(frame.header) THEN frame.header
             ELSE Append(frame.header, "CreatedDate")
    IN  [header |-> h,
         rows |-> [i \in 1..Len(frame.rows) |->
                     [c \in Range(h) |->
                        IF c = "CreatedDate" THEN ToDatetime(frame.rows[i][dc])
                        ELSE frame.rows[i][c]]]]

\* the text format of a date cell: with or without a time of day
HasTime(cell) == cell.time # ""

\* line 25: how pd.to_datetime of a whole column can end.  A column of one
\* format is parsed.  On a column that mixes date-only and date-time cells
\* pandas from 2.0 on infers the format of the first cell and raises
\* ValueError on the first cell that does not match; earlier versions
\* parse every cell on its own.
ParseOutcomes(cells) ==
    IF \E i, j \in 1..Len(cells) : HasTime(cells[i]) # HasTime(cells[j])
    THEN {"parsed", "ValueError"}
    ELSE {"parsed"}

\* ResolveDate showing the error without stopping the run
ResolveDateNoStop ==
    /\ pc = "loaded"
    /\ LET dc == FirstPresent(possible_date_columns, Range(df.header))
       IN  /\ date_column' = dc
           /\ IF dc # None
              THEN \E outcome \in ParseOutcomes(Column(df, dc)) :
                      IF outcome = "parsed"
                      THEN /\ df' = WithCreatedDate(df, dc)
                           /\ stages' = Append(stages, "date resolution")
                           /\ pc' = "resolved"
                           /\ UNCHANGED messages
                      ELSE /\ pc' = "crashed"
                           /\ UNCHANGED <<df, stages, messages>>
              ELSE /\ messages' = Append(messages,
                          [kind |-> "error",
                           text |-> "The dataset does not contain a recognized date column!"])
                   /\ stages' = Append(stages, "date resolution")
                   /\ pc' = "resolved"
                   /\ UNCHANGED df
    /\ UNCHANGED <<uploaded_file, filter_columns, chosen_col, selected_vals,
                   dates, df_period1, df_period2, kpi1, kpi2, cmp,
                   metric_choice, shown, charts>>

\* lines 21-29: the date-column gate
ResolveDate ==
    /\ pc = "loaded"
    /\ LET dc == ResolveDateColumn(df)
       IN  /\ date_column' = dc
           /\ IF dc # None
              THEN \E outcome \in ParseOutcomes(Column(df, dc)) :
                      IF outcome = "parsed"
                      THEN /\ df' = WithCreatedDate(df, dc)
                           /\ stages' = Append(stages, "date resolution")
                           /\ pc' = "resolved"
                           /\ UNCHANGED messages
                      ELSE \* the uncaught ValueError ends the run
                           /\ pc' = "crashed"
                           /\ UNCHANGED <<df, stages, messages>>
              ELSE /\ messages' = Append(messages,
                          [kind |-> "error",
                           text |-> "The dataset does not contain a recognized date column!"])
                   /\ pc' = "stopped"
                   /\ UNCHANGED <<df, stages>>
    /\ UNCHANGED <<uploaded_file, filter_columns, chosen_col, selected_vals,
                   dates, df_period1, df_period2, kpi1, kpi2, cmp,
                   metric_choice, shown, charts>>

\* line 33: the columns offered in the filter selectbox
FilterColumns(frame, dc) == SelectSeq(frame.header, LAMBDA c : c # dc)

\* line 36: df[chosen_col].dropna().unique().tolist(); the tables of the
\* model have no missing cells
UniqueVals(frame, col) == Unique(Column(frame, col))

\* numpy's tolist() of a datetime64[ns] array: each timestamp becomes the
\* integer count of its ticks since the epoch
ToList(values) ==
    [i \in 1..Len(values) |-> <<2 * values[i][1] + values[i][2]>>]

\* the pandas behaviours that lines 36-39 can meet.  Only the parsed
\* CreatedDate column holds timestamps, and only on timestamps do the
\* versions differ
PandasOutcomes(col) ==
    IF col = "CreatedDate" THEN {"<=1.1", "1.2-1.5", ">=2.0"} ELSE {">=2.0"}

\* line 36: the values offered in the multiselect.  Before pandas 2.0 the
\* unique() of a timestamp column is a numpy datetime64 array and tolist()
\* gives integers; from pandas 2.0 on it is a datetime array and tolist()
\* gives timestamps
OfferedVals(frame, col, pandas) ==
    IF col = "CreatedDate" /\ pandas # ">=2.0"
    THEN ToList(UniqueVals(frame, col))
    ELSE UniqueVals(frame, col)

\* line 39: df[df[chosen_col].isin(selected_vals)].  A value of the column
\* matches when it is among the chosen values; up to pandas 1.1 isin() on
\* a timestamp column casts chosen integers to timestamps, so a timestamp
\* also matches the integer of its tick count; from pandas 1.2 on an
\* integer matches no timestamp
IsIn(frame, col, vals, pandas) ==
    [header |-> frame.header,
     rows |-> SelectSeq(frame.rows,
                 LAMBDA r : \/ r[col] \in vals
                            \/ /\ col = "CreatedDate"
                               /\ pandas = "<=1.1"
                               /\ ToList(<<r[col]>>)[1] \in vals)]

\* lines 31-43: the filter; usercols are the columns the user may pick
Filter(usercols) ==
    /\ pc = "resolved"
    /\ LET fc == FilterColumns(df, date_column)
       IN  /\ filter_columns' = fc
           /\ \E col \in (IF fc = <<>> THEN {None} ELSE Range(fc) \cap usercols) :
               /\ chosen_col' = col
               /\ IF col # None
                  THEN \E pandas \in PandasOutcomes(col) :
                       \E sel \in SUBSET Range(OfferedVals(df, col, pandas)) :
                          /\ selected_vals' = sel
                          /\ df' = IF sel # {}
                                   THEN IsIn(df, col, sel, pandas)
                                   ELSE df
                  ELSE UNCHANGED <<selected_vals, df>>
    /\ stages' = Append(stages, "filter")
    /\ pc' = "filtered"
    /\ UNCHANGED <<uploaded_file, date_column, dates, df_period1, df_period2,
                   kpi1, kpi2, cmp, metric_choice, shown, charts, messages>>

\* lines 53-56: the rows with start <= CreatedDate <= end, both bounds
\* being pd.to_datetime of the picked datetime.date
PeriodRows(frame, start, end) ==
    SelectSeq(frame.rows,
              LAMBDA r : /\ TsLe(ToDatetime(DateOf(start)), r["CreatedDate"])
                         /\ TsLe(r["CreatedDate"], ToDatetime(DateOf(end))))

\* lines 47-50: the default of each date input is the min() or max() of
\* CreatedDate, which is NaT when the frame has no row; what st.date_input
\* does with NaT is not part of the script, so the run either ends in an
\* exception there or goes on with the dates the user picks
DateInputOutcomes(frame) ==
    IF frame.rows = <<>> THEN {"picked", "raised"} ELSE {"picked"}

\* lines 45-56: the four date inputs and the two slices; days are the
\* dates the user may pick
SelectPeriods(days) ==
    /\ pc = "filtered"
    /\ \E outcome \in DateInputOutcomes(df) :
        IF outcome = "picked"
        THEN /\ \E s1 \in days, e1 \in days, s2 \in days, e2 \in days :
                  /\ dates' = [start_date1 |-> s1, end_date1 |-> e1,
                               start_date2 |-> s2, end_date2 |-> e2]
                  /\ df_period1' = PeriodRows(df, s1, e1)
                  /\ df_period2' = PeriodRows(df, s2, e2)
             /\ stages' = Append(stages, "period slicing")
             /\ pc' = "sliced"
        ELSE /\ pc' = "crashed"
             /\ UNCHANGED <<dates, df_period1, df_period2, stages>>
    /\ UNCHANGED <<uploaded_file, df, date_column, filter_columns, chosen_col,
                   selected_vals, kpi1, kpi2, cmp, metric_choice, shown,
                   charts, messages>>

----------------------------------------------------------------------------
(* Metric aggregation, lines 58-94 *)

\* df['Quantity'] * df['PricePerUnit'] and the like, as a series
Product(rows, a, b) == [i \in 1..Len(rows) |-> R(rows[i][a] * rows[i][b])]
Series(rows, a) == [i \in 1..Len(rows) |-> R(rows[i][a])]

\* lines 80-81: df['CustomerId'].nunique()
NUnique(rows, col) == Cardinality({rows[i][col] : i \in 1..Len(rows)})

\* GroupsLongerThanOne keeping the groups of one row too (len(x) >= 1)
GroupsOfAnyLength(rows, col) ==
    SelectSeq(rows,
              LAMBDA r : Cardinality({i \in 1..Len(rows) : rows[i][col] = r[col]}) >= 1)

\* lines 85-86: groupby('CustomerId').filter(lambda x: len(x) > 1)
GroupsLongerThanOne(rows, col) ==
    SelectSeq(rows,
              LAMBDA r : Cardinality({i \in 1..Len(rows) : rows[i][col] = r[col]}) > 1)

\* lines 70-71, 76-77: sum / len(df), a numpy scalar divided by an int
PerOrderline(total, rows) == RDiv(total, R(Len(rows)))

\* lines 89-90
RepeatPurchaseRate(repeat_customers, unique_customers) ==
    IF unique_customers # Zero
    THEN RMul(RDiv(repeat_customers, unique_customers), Hundred)
    ELSE Zero

\* lines 93-94
AvgSpendingPerCustomer(total_revenue, unique_customers) ==
    IF unique_customers # Zero THEN RDiv(total_revenue, unique_customers) ELSE Zero

\* the metrics of one period; the script computes them with the same
\* expressions for period 1 and period 2
PeriodKpis(rows) ==
    LET total_revenue == SeriesSum(Product(rows, "Quantity", "PricePerUnit"))
        total_margin == SeriesSum(Product(rows, "Quantity", "MarginPerUnit"))
        unique_customers == R(NUnique(rows, "CustomerId"))
        repeat_customers ==
            R(NUnique(GroupsLongerThanOne(rows, "CustomerId"), "CustomerId"))
    IN  [total_revenue |-> total_revenue,
         total_margin |-> total_margin,
         total_quantity |-> SeriesSum(Series(rows, "Quantity")),
         avg_margin_per_unit |-> SeriesMean(Series(rows, "MarginPerUnit")),
         avg_revenue_per_unit |-> SeriesMean(Series(rows, "PricePerUnit")),
         avg_margin_per_orderline |-> PerOrderline(total_margin, rows),
         avg_revenue_per_orderline |-> PerOrderline(total_revenue, rows),
         unique_customers |-> unique_customers,
         repeat_customers |-> repeat_customers,
         rpr |-> RepeatPurchaseRate(repeat_customers, unique_customers),
         avg_spending_per_customer |->
             AvgSpendingPerCustomer(total_revenue, unique_customers)]

\* PctChange with the guard on the difference instead of the period-1 value
PctChangeGuardsDiff(diff, v1) ==
    IF diff # Zero THEN RMul(RDiv(diff, v1), Hundred) ELSE Zero

\* lines 104-109 and the inline expressions of lines 146-149, 181-216:
\* (diff / v1) * 100 if v1 != 0 else 0
PctChange(diff, v1) ==
    IF v1 # Zero THEN RMul(RDiv(diff, v1), Hundred) ELSE Zero

\* lines 96-109: the named differences and percent changes
Differences(k1, k2) ==
    LET diff_revenue == RSub(k2.total_revenue, k1.total_revenue)
        diff_margin == RSub(k2.total_margin, k1.total_margin)
        diff_quantity == RSub(k2.total_quantity, k1.total_quantity)
        diff_customers == RSub(k2.unique_customers, k1.unique_customers)
        diff_avg_spending ==
            RSub(k2.avg_spending_per_customer, k1.avg_spending_per_customer)
        diff_rpr == RSub(k2.rpr, k1.rpr)
    IN  [diff_revenue |-> diff_revenue,
         diff_margin |-> diff_margin,
         diff_quantity |-> diff_quantity,
         diff_customers |-> diff_customers,
         diff_avg_spending |-> diff_avg_spending,
         diff_rpr |-> diff_rpr,
         pct_change_revenue |-> PctChange(diff_revenue, k1.total_revenue),
         pct_change_margin |-> PctChange(diff_margin, k1.total_margin),
         pct_change_quantity |-> PctChange(diff_quantity, k1.total_quantity),
         pct_change_customers |-> PctChange(diff_customers, k1.unique_customers),
         pct_change_avg_spending |->
             PctChange(diff_avg_spending, k1.avg_spending_per_customer),
         pct_change_rpr |-> PctChange(diff_rpr, k1.rpr)]

\* lines 58-109
Aggregate ==
    /\ pc = "sliced"
    /\ kpi1' = PeriodKpis(df_period1)
    /\ kpi2' = PeriodKpis(df_period2)
    /\ cmp' = Differences(kpi1', kpi2')
    /\ stages' = Append(stages, "metric aggregation")
    /\ pc' = "aggregated"
    /\ UNCHANGED <<uploaded_file, df, date_column, filter_columns, chosen_col,
                   selected_vals, dates, df_period1, df_period2, metric_choice,
                   shown, charts, messages>>

----------------------------------------------------------------------------
(* Comparison and presentation, lines 111-223 *)

\* lines 113-118: the options of the metric selectbox
MetricOptions ==
    <<"All", "Revenue", "Margin", "Quantity",
      "Average Revenue per Unit", "Average Margin per Unit",
      "Average Revenue per Orderline", "Average Margin per Orderline",
      "Unique Customers", "Average Spending per Customer",
      "Repeat Purchase Rate">>

Entry(name, v1, v2, diff, pct) ==
    [Metric |-> name, Period1 |-> v1, Period2 |-> v2,
     Difference |-> diff, PctChange |-> pct]

\* lines 122-152: comparison_df, one row per metric
ComparisonTable(k1, k2, c) ==
    << Entry("Revenue", k1.total_revenue, k2.total_revenue,
             c.diff_revenue, c.pct_change_revenue),
       Entry("Margin", k1.total_margin, k2.total_margin,
             c.diff_margin, c.pct_change_margin),
       Entry("Quantity", k1.total_quantity, k2.total_quantity,
             c.diff_quantity, c.pct_change_quantity),
       Entry("Average Revenue per Unit",
             k1.avg_revenue_per_unit, k2.avg_revenue_per_unit,
             RSub(k2.avg_revenue_per_unit, k1.avg_revenue_per_unit),
             PctChange(RSub(k2.avg_revenue_per_unit, k1.avg_revenue_per_unit),
                       k1.avg_revenue_per_unit)),
       Entry("Average Margin per Unit",
             k1.avg_margin_per_unit, k2.avg_margin_per_unit,
             RSub(k2.avg_margin_per_unit, k1.avg_margin_per_unit),
             PctChange(RSub(k2.avg_margin_per_unit, k1.avg_margin_per_unit),
                       k1.avg_margin_per_unit)),
       Entry("Average Revenue per Orderline",
             k1.avg_revenue_per_orderline, k2.avg_revenue_per_orderline,
             RSub(k2.avg_revenue_per_orderline, k1.avg_revenue_per_orderline),
             PctChange(RSub(k2.avg_revenue_per_orderline,
                            k1.avg_revenue_per_orderline),
                       k1.avg_revenue_per_orderline)),
       Entry("Average Margin per Orderline",
             k1.avg_margin_per_orderline, k2.avg_margin_per_orderline,
             RSub(k2.avg_margin_per_orderline, k1.avg_margin_per_orderline),
             PctChange(RSub(k2.avg_margin_per_orderline,
                            k1.avg_margin_per_orderline),
                       k1.avg_margin_per_orderline)),
       Entry("Unique Customers", k1.unique_customers, k2.unique_customers,
             c.diff_customers, c.pct_change_customers),
       Entry("Average Spending per Customer",
             k1.avg_spending_per_customer, k2.avg_spending_per_customer,
             c.diff_avg_spending, c.pct_change_avg_spending),
       Entry("Repeat Purchase Rate", k1.rpr, k2.rpr,
             c.diff_rpr, c.pct_change_rpr) >>

\* lines 155-223: the four values a single-metric block interpolates into
\* its text (each is then printed by a format specification, mostly to two
\* decimals)
SingleMetric(m, k1, k2, c) ==
    CASE m = "Revenue" ->
           Entry(m, k1.total_revenue, k2.total_revenue,
                 c.diff_revenue, c.pct_change_revenue)
      [] m = "Margin" ->
           Entry(m, k1.total_margin, k2.total_margin,
                 c.diff_margin, c.pct_change_margin)
      [] m = "Quantity" ->
           Entry(m, k1.total_quantity, k2.total_quantity,
                 c.diff_quantity, c.pct_change_quantity)
      [] m = "Average Revenue per Unit" ->
           Entry(m, k1.avg_revenue_per_unit, k2.avg_revenue_per_unit,
                 RSub(k2.avg_revenue_per_unit, k1.avg_revenue_per_unit),
                 PctChange(RSub(k2.avg_revenue_per_unit, k1.avg_revenue_per_unit),
                           k1.avg_revenue_per_unit))
      [] m = "Average Margin per Unit" ->
           Entry(m, k1.avg_margin_per_unit, k2.avg_margin_per_unit,
                 RSub(k2.avg_margin_per_unit, k1.avg_margin_per_unit),
                 PctChange(RSub(k2.avg_margin_per_unit, k1.avg_margin_per_unit),
                           k1.avg_margin_per_unit))
      [] m = "Average Revenue per Orderline" ->
           Entry(m, k1.avg_revenue_per_orderline, k2.avg_revenue_per_orderline,
                 RSub(k2.avg_revenue_per_orderline, k1.avg_revenue_per_orderline),
                 PctChange(RSub(k2.avg_revenue_per_orderline,
                                k1.avg_revenue_per_orderline),
                           k1.avg_revenue_per_orderline))
      [] m = "Average Margin per Orderline" ->
           Entry(m, k1.avg_margin_per_orderline, k2.avg_margin_per_orderline,
                 RSub(k2.avg_margin_per_orderline, k1.avg_margin_per_orderline),
                 PctChange(RSub(k2.avg_margin_per_orderline,
                                k1.avg_margin_per_orderline),
                           k1.avg_margin_per_orderline))
      [] m = "Unique Customers" ->
           Entry(m, k1.unique_customers, k2.unique_customers,
                 c.diff_customers, c.pct_change_customers)
      [] m = "Average Spending per Customer" ->
           Entry(m, k1.avg_spending_per_customer, k2.avg_spending_per_customer,
                 RSub(k2.avg_spending_per_customer, k1.avg_spending_per_customer),
                 PctChange(RSub(k2.avg_spending_per_customer,
                                k1.avg_spending_per_customer),
                           k1.avg_spending_per_customer))
      [] m = "Repeat Purchase Rate" ->
           Entry(m, k1.rpr, k2.rpr, c.diff_rpr, c.pct_change_rpr)

\* lines 121-223: the comparison block for a metric choice
Comparison(m, k1, k2, c) ==
    IF m = "All" THEN ComparisonTable(k1, k2, c)
    ELSE << SingleMetric(m, k1, k2, c) >>

----------------------------------------------------------------------------
(* Time series, lines 226-280 *)

SetMin(S) == CHOOSE x \in S : \A y \in S : x <= y
SetMax(S) == CHOOSE x \in S : \A y \in S : y <= x

\* lines 230-235: ts["MetricSeries"] of one row
MetricSeries(metric, r) ==
    IF metric = "Revenue" THEN R(r["Quantity"] * r["PricePerUnit"])
    ELSE IF metric = "Margin" THEN R(r["Quantity"] * r["MarginPerUnit"])
    ELSE R(r["Quantity"])

\* ResampleDays making a bin only for the days that have a row
DaysWithRows(rows) == {Day(rows[i]["CreatedDate"]) : i \in 1..Len(rows)}

\* the days resample("D") makes bins for: every day from the first to the
\* last day that has a row
ResampleDays(rows) ==
    IF rows = <<>> THEN {}
    ELSE LET ds == {Day(rows[i]["CreatedDate"]) : i \in 1..Len(rows)}
         IN  SetMin(ds)..SetMax(ds)

\* lines 237-242: set_index("CreatedDate").resample("D")["MetricSeries"].sum()
DailySeries(frame, metric) ==
    [d \in ResampleDays(frame.rows) |->
        LET onday == SelectSeq(frame.rows, LAMBDA r : Day(r["CreatedDate"]) = d)
        IN  SeriesSum([i \in 1..Len(onday) |-> MetricSeries(metric, onday[i])])]

\* lines 227-272: one chart
PlotTimeseries(metric, frame, dt) ==
    [metric |-> metric,
     ts_daily |-> DailySeries(frame, metric),
     vlines |-> << [x |-> ToDatetime(DateOf(dt.start_date1)), dash |-> "dash", color |-> "green"],
                   [x |-> ToDatetime(DateOf(dt.end_date1)), dash |-> "dot", color |-> "green"],
                   [x |-> ToDatetime(DateOf(dt.start_date2)), dash |-> "dash", color |-> "red"],
                   [x |-> ToDatetime(DateOf(dt.end_date2)), dash |-> "dot", color |-> "red"] >>,
     x0 |-> IF TsLe(ToDatetime(DateOf(dt.start_date1)), ToDatetime(DateOf(dt.start_date2)))
            THEN ToDatetime(DateOf(dt.start_date1))
            ELSE ToDatetime(DateOf(dt.start_date2)),
     x1 |-> IF TsLe(ToDatetime(DateOf(dt.end_date2)), ToDatetime(DateOf(dt.end_date1)))
            THEN ToDatetime(DateOf(dt.end_date1))
            ELSE ToDatetime(DateOf(dt.end_date2))]

\* PlottedMetrics plotting any single choice
PlottedMetricsAnyChoice(m) ==
    IF m = "All" THEN <<"Revenue", "Margin", "Quantity">> ELSE <<m>>

\* lines 274-280: which charts a metric choice plots
PlottedMetrics(m) ==
    IF m = "All" THEN <<"Revenue", "Margin", "Quantity">>
    ELSE IF m \in {"Revenue", "Margin", "Quantity"} THEN <<m>>
    ELSE <<>>

\* lines 111-280: the metric selectbox, the comparison block and the charts;
\* choices are the options the user may pick
Present(choices) ==
    /\ pc = "aggregated"
    /\ \E m \in Range(MetricOptions) \cap choices :
        /\ metric_choice' = m
        /\ shown' = Comparison(m, kpi1, kpi2, cmp)
        /\ charts' = [i \in 1..Len(PlottedMetrics(m)) |->
                         PlotTimeseries(PlottedMetrics(m)[i], df, dates)]
    /\ stages' = stages \o <<"comparison", "time-series rendering">>
    /\ pc' = "done"
    /\ UNCHANGED <<uploaded_file, df, date_column, filter_columns, chosen_col,
                   selected_vals, dates, df_period1, df_period2, kpi1, kpi2,
                   cmp, messages>>

\* any change of an input control re-executes the script from the top
Rerun ==
    /\ pc \in {"stopped", "crashed", "done"}
    /\ pc' = "start"
    /\ uploaded_file' = NoFile
    /\ df' = NoFrame
    /\ date_column' = None
    /\ filter_columns' = <<>>
    /\ chosen_col' = None
    /\ selected_vals' = {}
    /\ dates' = <<>>
    /\ df_period1' = <<>>
    /\ df_period2' = <<>>
    /\ kpi1' = <<>>
    /\ kpi2' = <<>>
    /\ cmp' = <<>>
    /\ metric_choice' = None
    /\ shown' = <<>>
    /\ charts' = <<>>
    /\ messages' = <<>>
    /\ stages' = <<>>

----------------------------------------------------------------------------
(* Uploaded tables and user choices the script is run on.  Every           *)
(* specification runs the whole script; the specifications differ in the   *)
(* family of tables and choices, each varying what its properties read.    *)

Quantities == {1, 2}
Customers == {"A", "B"}
Regions == {"North", "South"}
Times == {"", "00:00", "12:00"}

Table(h, rowset, n) == {[header |-> h, rows |-> rs] : rs \in SeqsUpTo(rowset, n)}

\* Order lines of two days with varying quantity, price, margin (one of
\* them a free item) and customer
Lines ==
    {[q |-> 2, price |-> 10, margin |-> 3],
     [q |-> 1, price |-> 5, margin |-> 1],
     [q |-> 1, price |-> 0, margin |-> 0]}
HeaderKpi == <<"OrderDate">> \o OrderLineColumns
RowsKpi ==
    {MkRow(HeaderKpi, [c \in {"OrderDate"} |-> DateOf(d)],
           l.q, l.price, l.margin, cu, "North") :
        d \in 0..1, l \in Lines, cu \in Customers}
FilesKpi == {NoFile} \cup Table(HeaderKpi, RowsKpi, MaxRows)

\* Order lines of the first and the last day, without a time of day, at
\* 00:00 and at 12:00; and one table that has no date column
HeaderDates == <<"Date">> \o OrderLineColumns
RowsDates ==
    {MkRow(HeaderDates, [c \in {"Date"} |-> [date |-> d, time |-> t]],
           1, 10, 3, "A", "North") :
        d \in {0, MaxDay}, t \in Times}
FilesDates ==
    {NoFile} \cup Table(HeaderDates, RowsDates, MaxRows) \cup
    {[header |-> OrderLineColumns,
      rows |-> << MkRow(OrderLineColumns, <<>>, 1, 10, 3, "A", "North") >>]}

\* Order lines of one day that vary in the filter dimensions
HeaderFilter == <<"InvoiceDate">> \o OrderLineColumns
RowsFilter ==
    {MkRow(HeaderFilter, [c \in {"InvoiceDate"} |-> DateOf(0)],
           q, 10, 3, cu, reg) :
        q \in Quantities, cu \in Customers, reg \in Regions}
FilesFilter == {NoFile} \cup Table(HeaderFilter, RowsFilter, MaxRows)

\* One order line under every header: up to MaxDateCols of the candidate
\* date columns, in any order, before and after the other columns.  The
\* cell of a date column holds the day of its place in the priority list,
\* so the parsed date tells the source column.
Place(c) == CHOOSE i \in 1..Len(possible_date_columns) : possible_date_columns[i] = c
DateColumnLists ==
    {cs \in SeqsUpTo(Range(possible_date_columns), MaxDateCols) \cup {<<>>} :
        \A i, j \in 1..Len(cs) : i # j => cs[i] # cs[j]}
Headers ==
    UNION {{SubSeq(cs, 1, k) \o OrderLineColumns \o SubSeq(cs, k + 1, Len(cs)) :
               k \in 0..Len(cs)} : cs \in DateColumnLists}
FilesHeader ==
    {NoFile} \cup
    {[header |-> h,
      rows |-> << MkRow(h, [c \in Range(possible_date_columns) |-> DateOf(Place(c))],
                        2, 10, 3, "A", "North") >>] : h \in Headers}

----------------------------------------------------------------------------
(* Specifications *)

Next ==
    \/ UploadGate(FilesKpi)
    \/ ResolveDate
    \/ Filter({"Region"})
    \/ SelectPeriods(0..1)
    \/ Aggregate
    \/ Present(Range(MetricOptions))
    \/ Rerun

Spec == Init /\ [][Next]_vars

NextDates ==
    \/ UploadGate(FilesDates)
    \/ ResolveDate
    \/ Filter({"Region"})
    \/ SelectPeriods(0..MaxDay)
    \/ Aggregate
    \/ Present({"All", "Quantity", "Unique Customers"})
    \/ Rerun

SpecDates == Init /\ [][NextDates]_vars

NextFilter ==
    \/ UploadGate(FilesFilter)
    \/ ResolveDate
    \/ Filter({"Region", "CustomerId", "Quantity", "CreatedDate"})
    \/ SelectPeriods({0})
    \/ Aggregate
    \/ Present({"All"})
    \/ Rerun

SpecFilter == Init /\ [][NextFilter]_vars

NextHeader ==
    \/ UploadGate(FilesHeader)
    \/ ResolveDate
    \/ Filter({"Region", "CreatedDate"})
    \/ SelectPeriods({1, 6})
    \/ Aggregate
    \/ Present({"All", "Revenue"})
    \/ Rerun

SpecHeader == Init /\ [][NextHeader]_vars

----------------------------------------------------------------------------
(* Properties *)

Sliced == pc \in {"sliced", "aggregated", "done"}
Aggregated == pc \in {"aggregated", "done"}
Filtered == pc \in {"filtered", "sliced", "aggregated", "done"}
Resolved == pc \in {"resolved", "filtered", "sliced", "aggregated", "done"}

RatioMetrics ==
    {"avg_revenue_per_unit", "avg_margin_per_unit", "avg_revenue_per_orderline",
     "avg_margin_per_orderline", "rpr", "avg_spending_per_customer"}

\* C1: for a period with zero rows every ratio metric (the four averages,
\* the repeat purchase rate, the average spending per customer) is 0, and
\* not NaN or an infinity.
C1_EmptyPeriodRatiosAreZero ==
    Aggregated =>
        /\ df_period1 = <<>> => \A m \in RatioMetrics : kpi1[m] = Zero
        /\ df_period2 = <<>> => \A m \in RatioMetrics : kpi2[m] = Zero

\* the period value of a metric of the comparison, by its display name
KpiOf(name, k) ==
    CASE name = "Revenue" -> k.total_revenue
      [] name = "Margin" -> k.total_margin
      [] name = "Quantity" -> k.total_quantity
      [] name = "Average Revenue per Unit" -> k.avg_revenue_per_unit
      [] name = "Average Margin per Unit" -> k.avg_margin_per_unit
      [] name = "Average Revenue per Orderline" -> k.avg_revenue_per_orderline
      [] name = "Average Margin per Orderline" -> k.avg_margin_per_orderline
      [] name = "Unique Customers" -> k.unique_customers
      [] name = "Average Spending per Customer" -> k.avg_spending_per_customer
      [] name = "Repeat Purchase Rate" -> k.rpr

TenMetrics == Range(MetricOptions) \ {"All"}

ComparedRight(e) ==
    /\ e.Period1 = KpiOf(e.Metric, kpi1)
    /\ e.Period2 = KpiOf(e.Metric, kpi2)
    /\ e.Difference = RSub(e.Period2, e.Period1)
    /\ e.PctChange = IF e.Period1 = Zero THEN Zero
                     ELSE RDiv(RMul(Hundred, e.Difference), e.Period1)

\* C2: for each of the ten metrics the comparison reports the two period
\* values, difference = v2 - v1, and percent_change = 0 when v1 = 0 and
\* 100 * difference / v1 otherwise, in the "All" table (all ten metrics)
\* and in the single-metric display (the chosen metric).
C2_ComparatorFormula ==
    pc = "done" =>
        /\ \A i \in 1..Len(shown) : ComparedRight(shown[i])
        /\ {shown[i].Metric : i \in 1..Len(shown)} =
               IF metric_choice = "All" THEN TenMetrics ELSE {metric_choice}
        /\ Len(shown) = IF metric_choice = "All" THEN 10 ELSE 1

\* the "All" table of a run whose period 1 holds one free item and whose
\* period 2 sold two units for 20: revenue 0 -> 20 is difference 20 and
\* change 0, quantity 1 -> 2 is difference 1 and change 100
C2_Witness ==
    /\ pc = "done"
    /\ metric_choice = "All"
    /\ shown[1] = Entry("Revenue", Zero, R(20), R(20), Zero)
    /\ shown[3] = Entry("Quantity", R(1), R(2), R(1), R(100))
    /\ shown[4].Period1 = Zero /\ shown[4].PctChange = Zero

RECURSIVE SumInt(_, _)
SumInt(f, n) == IF n = 0 THEN 0 ELSE f[n] + SumInt(f, n - 1)

CustomerIds(rows) == {rows[i]["CustomerId"] : i \in 1..Len(rows)}
RowsOf(rows, cu) == {i \in 1..Len(rows) : rows[i]["CustomerId"] = cu}
Repeaters(rows) == {cu \in CustomerIds(rows) : Cardinality(RowsOf(rows, cu)) > 1}

AggregatedRight(rows, k) ==
    /\ k.total_revenue =
          R(SumInt([i \in 1..Len(rows) |-> rows[i]["Quantity"] * rows[i]["PricePerUnit"]],
                   Len(rows)))
    /\ k.total_margin =
          R(SumInt([i \in 1..Len(rows) |-> rows[i]["Quantity"] * rows[i]["MarginPerUnit"]],
                   Len(rows)))
    /\ k.total_quantity =
          R(SumInt([i \in 1..Len(rows) |-> rows[i]["Quantity"]], Len(rows)))
    /\ k.unique_customers = R(Cardinality(CustomerIds(rows)))
    /\ k.repeat_customers = R(Cardinality(Repeaters(rows)))
    /\ CustomerIds(rows) # {} =>
          k.rpr = Frac(100 * Cardinality(Repeaters(rows)), Cardinality(CustomerIds(rows)))

\* C3: for each period the aggregator yields total_revenue = sum of
\* Quantity * PricePerUnit, total_margin = sum of Quantity * MarginPerUnit,
\* total_quantity = sum of Quantity, unique_customers = the number of
\* distinct CustomerId values, repeat_customers = the number of those that
\* occur in more than one row, and repeat_purchase_rate =
\* repeat_customers / unique_customers * 100 (where there is a customer).
C3_AggregatorTotals ==
    Aggregated =>
        /\ AggregatedRight(df_period1, kpi1)
        /\ AggregatedRight(df_period2, kpi2)

\* the example: rows (2, 10, 3, A) and (1, 5, 1, A) give 25, 7, 3, 1, 1, 100
C3_Witness ==
    /\ Aggregated
    /\ Len(df_period1) = 2
    /\ \A c \in {"Quantity", "PricePerUnit", "MarginPerUnit", "CustomerId"} :
          /\ df_period1[1][c] = [Quantity |-> 2, PricePerUnit |-> 10,
                                 MarginPerUnit |-> 3, CustomerId |-> "A"][c]
          /\ df_period1[2][c] = [Quantity |-> 1, PricePerUnit |-> 5,
                                 MarginPerUnit |-> 1, CustomerId |-> "A"][c]
    /\ kpi1.total_revenue = R(25)
    /\ kpi1.total_margin = R(7)
    /\ kpi1.total_quantity = R(3)
    /\ kpi1.unique_customers = R(1)
    /\ kpi1.repeat_customers = R(1)
    /\ kpi1.rpr = R(100)

InPeriod(r, start, end) ==
    start <= Day(r["CreatedDate"]) /\ Day(r["CreatedDate"]) <= end

\* C4: a row of the filtered table belongs to a period's subset if and only
\* if the day of its resolved date lies in the closed interval
\* [start, end], whatever its time of day.
C4_PeriodIsClosedInterval ==
    Sliced =>
        \A i \in 1..Len(df.rows) :
            /\ df.rows[i] \in Range(df_period1)
                  <=> InPeriod(df.rows[i], dates.start_date1, dates.end_date1)
            /\ df.rows[i] \in Range(df_period2)
                  <=> InPeriod(df.rows[i], dates.start_date2, dates.end_date2)

\* the table the filter is applied to: the upload with its parsed date
Unfiltered == WithCreatedDate(uploaded_file, date_column).rows

\* a value of the chosen column is among the chosen values when the
\* multiselect offered it and the user selected it: as itself, or, for a
\* timestamp offered as an integer, as the integer of its tick count
Chosen(v) ==
    \/ v \in selected_vals
    \/ /\ chosen_col = "CreatedDate"
       /\ ToList(<<v>>)[1] \in selected_vals

PresentCandidates(h) == {c \in Range(possible_date_columns) : c \in Range(h)}

\* C6: the resolver selects, among the candidate names present in the
\* table, the one that comes first in the priority list, whatever the order
\* of the columns and however many candidates are present; the date the
\* script slices on is parsed from that column.
C6_ResolverPicksFirstPriority ==
    Resolved =>
        /\ date_column \in PresentCandidates(uploaded_file.header)
        /\ \A c \in PresentCandidates(uploaded_file.header) :
               Place(date_column) <= Place(c)
        /\ \A i \in 1..Len(df.rows) :
               df.rows[i]["CreatedDate"] = <<Place(date_column), 0>>

\* Datum is the first column of the table and OrderDate its last: OrderDate
\* is resolved
C6_Witness ==
    /\ pc = "resolved"
    /\ uploaded_file.header[1] = "Datum"
    /\ uploaded_file.header[Len(uploaded_file.header)] = "OrderDate"
    /\ date_column = "OrderDate"

LaterStages ==
    {"filter", "period slicing", "metric aggregation", "comparison",
     "time-series rendering"}

NoUpload == uploaded_file = NoFile
NoDateColumn == ~NoUpload /\ PresentCandidates(uploaded_file.header) = {}

MixedDateColumn ==
    /\ ~NoUpload
    /\ date_column # None
    /\ \E i, j \in 1..Len(uploaded_file.rows) :
          (uploaded_file.rows[i][date_column].time = "")
             # (uploaded_file.rows[j][date_column].time = "")

\* what the script does at its two gates: with no file uploaded the run
\* stops after an informational message, with no candidate date column in
\* the table it stops after an error message, and a stopped run has
\* executed no later stage
GatesStop ==
    /\ pc = "stopped" =>
          /\ Range(stages) \cap LaterStages = {}
          /\ \/ NoUpload /\ messages = <<[kind |-> "info",
                                           text |-> "Please upload a CSV to start."]>>
             \/ NoDateColumn /\ Len(messages) = 1 /\ messages[1].kind = "error"
    /\ (NoUpload /\ pc # "start") => pc = "stopped"
    /\ (NoDateColumn /\ pc # "loaded") => pc = "stopped"
    /\ pc # "stopped" => messages = <<>>

AllStages ==
    <<"ingestion", "date resolution", "filter", "period slicing",
      "metric aggregation", "comparison", "time-series rendering">>

\* C7 as stated: the two gates stop the run before any later stage, and
\* these are the only two conditions under which a run ends early: a run
\* with a file and a candidate date column goes through all the stages.
C7_OnlyTheGatesHalt ==
    /\ GatesStop
    /\ pc \in {"stopped", "crashed"} => NoUpload \/ NoDateColumn
    /\ pc = "done" => stages = AllStages

\* C7: the two gates stop the run before any later stage, and they are
\* the only conditions under which the script stops itself with a message;
\* a run may also end in an uncaught exception: the parse failure of a date
\* column that mixes date-only and date-time cells, before any later stage,
\* or the date inputs of a frame that the filter left without rows; every
\* run that ends otherwise has gone through all the stages.
C7_HaltGates ==
    /\ GatesStop
    /\ pc = "crashed" =>
          \/ /\ MixedDateColumn
             /\ Range(stages) \cap LaterStages = {}
          \/ /\ df.rows = <<>>
             /\ stages = <<"ingestion", "date resolution", "filter">>
    /\ pc = "done" => stages = AllStages

\* a table without any candidate date column: the error halt
C7_Witness ==
    /\ pc = "stopped"
    /\ NoDateColumn
    /\ messages[1].kind = "error"
    /\ stages = <<"ingestion">>

PeriodDays == (dates.start_date1..dates.end_date1) \cup (dates.start_date2..dates.end_date2)
RowsOn(d) == SelectSeq(df.rows, LAMBDA r : Day(r["CreatedDate"]) = d)
DataDays == {Day(df.rows[i]["CreatedDate"]) : i \in 1..Len(df.rows)}

\* the sum of a chart's metric over the rows of one day
DaySum(metric, d) ==
    R(SumInt([i \in 1..Len(RowsOn(d)) |->
                 IF metric = "Revenue"
                 THEN RowsOn(d)[i]["Quantity"] * RowsOn(d)[i]["PricePerUnit"]
                 ELSE IF metric = "Margin"
                 THEN RowsOn(d)[i]["Quantity"] * RowsOn(d)[i]["MarginPerUnit"]
                 ELSE RowsOn(d)[i]["Quantity"]],
             Len(RowsOn(d))))

\* C8 as stated: every rendered daily series has an entry for every
\* calendar day inside either selected period, 0 when the filtered table
\* has no row on that day.
C8_EveryPeriodDayHasEntry ==
    pc = "done" =>
        \A i \in 1..Len(charts) : \A d \in PeriodDays :
            /\ d \in DOMAIN charts[i].ts_daily
            /\ RowsOn(d) = <<>> => charts[i].ts_daily[d] = Zero

\* C8: every rendered daily series has an entry for exactly the calendar
\* days from the earliest to the latest row date of the filtered table; the
\* entry is the day's sum, 0 when the table has no row on that day.
C8_EveryDataSpanDayHasEntry ==
    pc = "done" =>
        \A i \in 1..Len(charts) :
            /\ DOMAIN charts[i].ts_daily =
                   {d \in 0..MaxDay : \E a, b \in DataDays : a <= d /\ d <= b}
            /\ \A d \in DOMAIN charts[i].ts_daily :
                   /\ charts[i].ts_daily[d] = DaySum(charts[i].metric, d)
                   /\ RowsOn(d) = <<>> => charts[i].ts_daily[d] = Zero

\* rows on the first and the last day only: a day between them, inside
\* period 1, has the entry 0 in each of the three charts
C8_Witness ==
    /\ pc = "done"
    /\ Len(charts) = 3
    /\ \E d \in dates.start_date1..dates.end_date1 :
          /\ RowsOn(d) = <<>>
          /\ \A i \in 1..3 : d \in DOMAIN charts[i].ts_daily /\ charts[i].ts_daily[d] = Zero

ChartMetrics == [i \in 1..Len(charts) |-> charts[i].metric]

\* C9 as stated: every metric choice renders at least one line chart, and
\* a single selected metric exactly one.
C9_AlwaysAChart ==
    pc = "done" =>
        /\ Len(charts) >= 1
        /\ metric_choice # "All" => Len(charts) = 1

\* C9: "All" renders three charts (Revenue, Margin, Quantity, in this
\* order), a choice of Revenue, Margin or Quantity renders exactly the chart
\* of that metric, and any of the other seven choices renders no chart.
C9_ChartsPerChoice ==
    pc = "done" =>
        ChartMetrics =
            CASE metric_choice = "All" -> <<"Revenue", "Margin", "Quantity">>
              [] metric_choice \in {"Revenue", "Margin", "Quantity"} -> <<metric_choice>>
              [] OTHER -> <<>>

\* the choice "Unique Customers": a comparison block and no chart
C9_Witness ==
    /\ pc = "done"
    /\ metric_choice = "Unique Customers"
    /\ Len(shown) = 1
    /\ charts = <<>>

\* C10: no column holding the resolved date is offered as the filter
\* column: neither the source column the resolver picked nor the parsed
\* CreatedDate column the script slices on.
C10_DateColumnsNotOffered ==
    Filtered =>
        /\ date_column \notin Range(filter_columns)
        /\ "CreatedDate" \notin Range(filter_columns)

====
